---- MODULE Spec2Model ----
(***************************************************************************)
(* Model of zinuoli/hwen: the training/evaluation loop of train.py and the *)
(* shape arithmetic of the enhancement network of models/agg.py.           *)
(*                                                                         *)
(* Spec    : train() run by a single process.                              *)
(* SpecDDP : train() run by several data-parallel workers that share one   *)
(*           checkpoint directory.                                         *)
(* SpecNet : the forward pass of Backbone and Agg on tensor shapes.         *)
(* SpecLayer : construction and forward pass of one primitive layer        *)
(*           (ConvLayer, SelfAttention, SPP).                              *)
(***************************************************************************)
EXTENDS Integers, Sequences, FiniteSets, TLC

\* ------------------------------------------------------------------ bounds
NumProcs   == 2      \* largest number of data-parallel workers explored
MaxEpochs  == 2      \* largest opt.OPTIM.NUM_EPOCHS explored
MaxValEvery == 2     \* largest opt.TRAINING.VAL_AFTER_EVERY explored
NumBatches == 1      \* len(trainloader) of every worker
ValLen     == 2      \* len(testloader) of every worker
MaxNegPsnr == 1      \* per-pair PSNR values down to -MaxNegPsnr are explored
MaxPsnr    == 1      \* largest per-pair PSNR explored
MaxLoss    == 1      \* largest mini-batch loss explored

Epochs   == 1..MaxEpochs
PsnrVals == (0 - MaxNegPsnr)..MaxPsnr
Losses   == 0..MaxLoss

\* ------------------------------------------------- exact rational numbers
\* Python's true division (psnr /= len(testloader)) is modelled exactly: a
\* number is a normalised fraction <<numerator, denominator>>, denominator>0.
Abs(n) == IF n < 0 THEN -n ELSE n

RECURSIVE Gcd(_, _)
Gcd(a, b) == IF b = 0 THEN a ELSE Gcd(b, a % b)

Frac(n, d) ==
    LET g == Gcd(Abs(n), d) IN <<n \div g, d \div g>>

FracAdd(a, n) == Frac(a[1] + n * a[2], a[2])

FracDiv(a, n) == Frac(a[1], a[2] * n)

FracGt(a, b) == a[1] * b[2] > b[1] * a[2]

FracGe(a, b) == a[1] * b[2] >= b[1] * a[2]

Zero == Frac(0, 1)

\* ----------------------------------------------------------- tensor shapes
NoShape    == <<>>

VARIABLES
    world,         \* accelerator.num_processes: workers running train()
    num_epochs,    \* opt.OPTIM.NUM_EPOCHS
    val_every,     \* opt.TRAINING.VAL_AFTER_EVERY
    pc,            \* per worker: position in train()
    epoch,         \* per worker: loop variable of "for epoch in range(...)"
    batch,         \* per worker: mini-batches done in the current epoch
    train_loss,    \* per worker: train_loss local
    sched_steps,   \* per worker: number of scheduler.step() calls
    opt_steps,     \* per worker: number of optimizer.step() calls
    idx,           \* per worker: validation pairs scored in this phase
    psnr,          \* per worker: psnr accumulator / average
    best_psnr,     \* per worker: best_psnr watermark
    out,           \* per worker: shape of the last model(inp)
    res,           \* per worker: shape of the tensor last scored
    tar,           \* per worker: shape of the target last scored
    store,         \* checkpoint directory: epoch -> record or NoRecord
    saves,         \* per worker, per epoch: number of save_checkpoint calls
    val_history,   \* per worker: averaged PSNR of the finished phases
    visited,       \* per worker: epochs whose body was entered, in order
    log_failed,    \* per worker: accelerator.log raised
    x,             \* the input tensor of a forward pass
    net_pc,        \* position in Agg.forward / in the life of a layer
    loc,           \* the locals of Agg.forward
    layer,         \* a primitive layer under construction or in use
    y              \* the result of the layer's forward

trainVars == <<world, num_epochs, val_every, pc, epoch, batch, train_loss,
               sched_steps, opt_steps, idx, psnr, best_psnr, out, res, tar,
               store, saves, val_history, visited, log_failed>>

netVars == <<x, net_pc, loc, layer, y>>

vars == <<trainVars, netVars>>

Procs == 1..world

\* shapes of the validation tensors explored: the two shapes of the mismatch
\* scenario and, for a single process, one that differs from them in one side
ValShapes ==
    IF world = 1
    THEN {<<1, 3, 100, 150>>, <<1, 3, 120, 180>>, <<1, 3, 100, 180>>}
    ELSE {<<1, 3, 100, 150>>, <<1, 3, 120, 180>>}

NoRecord == [epoch |-> 0, state_dict |-> 0, optimizer |-> 0]

\* range(start_epoch, NUM_EPOCHS + 1) has a next element
InRange(e) == e <= num_epochs

TrainLocals ==
    /\ epoch = [w \in Procs |-> 1]
    /\ pc = [w \in Procs |-> IF InRange(1) THEN "train" ELSE "end_training"]
    /\ batch = [w \in Procs |-> 0]
    /\ train_loss = [w \in Procs |-> 0]
    /\ sched_steps = [w \in Procs |-> 0]
    /\ opt_steps = [w \in Procs |-> 0]
    /\ idx = [w \in Procs |-> 0]
    /\ psnr = [w \in Procs |-> Zero]
    /\ best_psnr = [w \in Procs |-> Zero]
    /\ out = [w \in Procs |-> NoShape]
    /\ res = [w \in Procs |-> NoShape]
    /\ tar = [w \in Procs |-> NoShape]
    /\ store = [e \in Epochs |-> NoRecord]
    /\ saves = [w \in Procs |-> [e \in Epochs |-> 0]]
    /\ val_history = [w \in Procs |-> <<>>]
    /\ visited = [w \in Procs |-> IF InRange(1) THEN <<1>> ELSE <<>>]
    /\ log_failed = [w \in Procs |-> FALSE]

\* the locals of Agg.forward
LocalNames ==
    {"out_backbone", "out", "out0_1", "out0_2", "agg0_rgb", "out1_1",
     "out1_2", "agg1_rgb", "out2_1", "out2_2", "agg2_rgb", "out3_1", "out3_2",
     "agg3_rgb", "spp_rgb", "out_rgb"}

NoLocals == [n \in LocalNames |-> <<>>]

\* no forward pass is running
NetIdle ==
    /\ x = <<>>
    /\ net_pc = "idle"
    /\ loc = NoLocals
    /\ layer = [kind |-> "NoLayer"]
    /\ y = <<>>

\* train() has not been called
TrainIdle ==
    /\ world = 1
    /\ num_epochs = 0
    /\ val_every = 1
    /\ TrainLocals

TrainInit ==
    /\ num_epochs \in 0..MaxEpochs
    /\ val_every \in 1..MaxValEvery
    /\ TrainLocals
    /\ NetIdle

\* one process: "python train.py"
Init ==
    /\ world = 1
    /\ TrainInit

\* several workers: "accelerate launch train.py"
InitDDP ==
    /\ world \in 2..NumProcs
    /\ TrainInit

\* ------------------------------------------------------- train(): helpers
\* slips of the comparison of line 121: ">=" and "!=" for ">"
Improves_AtLeast(p, best) == FracGe(p, best)

Improves_Differs(p, best) == p # best

\* "if psnr > best_psnr" (train.py line 121)
Improves(p, best) == FracGt(p, best)

\* "if epoch % opt.TRAINING.VAL_AFTER_EVERY == 0" (train.py line 96)
ValidationDue(e) == e % val_every = 0

\* "if res.shape != tar.shape: res = interpolate(res, (tar.shape[2],
\* tar.shape[3]))": interpolate keeps batch and channels, sets height, width
Interpolate(r, size) == <<r[1], r[2], size[1], size[2]>>

\* a slip of the test of line 110: only the heights are compared
Restored_HeightOnly(r, t) ==
    IF r[3] # t[3] THEN Interpolate(r, <<t[3], t[4]>>) ELSE r

\* the tensor that is scored (train.py lines 109-111)
Restored(r, t) == IF r # t THEN Interpolate(r, <<t[3], t[4]>>) ELSE r

\* the Checkpoint Record handed to save_checkpoint (train.py lines 124-128)
CheckpointRecord(w, e) ==
    [epoch |-> e, state_dict |-> opt_steps[w], optimizer |-> opt_steps[w]]

\* save_checkpoint(record, epoch, SAVE_DIR): utils.py is not part of the
\* sources; the store keeps one record per name, the name encodes the epoch
SaveCheckpoint(st, rec, e) == [st EXCEPT ![e] = rec]

\* the for statement takes the next element of range(1, NUM_EPOCHS + 1)
LoopAdvance(w) ==
    /\ epoch' = [epoch EXCEPT ![w] = @ + 1]
    /\ IF InRange(epoch[w] + 1)
       THEN /\ pc' = [pc EXCEPT ![w] = "train"]
            /\ visited' = [visited EXCEPT ![w] = Append(@, epoch[w] + 1)]
       ELSE /\ pc' = [pc EXCEPT ![w] = "end_training"]
            /\ visited' = visited
    /\ batch' = [batch EXCEPT ![w] = 0]
    /\ train_loss' = [train_loss EXCEPT ![w] = 0]

\* ------------------------------------------------------- train(): actions
\* One mini-batch of every worker (lines 73-90).  accelerator.backward is the
\* gradient all-reduce: no worker passes it before every worker entered it.
TrainBatch ==
    /\ \A w \in Procs : pc[w] = "train" /\ batch[w] < NumBatches
    /\ \E l \in [Procs -> Losses] : train_loss' = l
    /\ batch' = [w \in Procs |-> batch[w] + 1]
    /\ opt_steps' = [w \in Procs |-> opt_steps[w] + 1]
    /\ pc' = [w \in Procs |->
                IF batch[w] + 1 = NumBatches THEN "sched" ELSE "train"]
    /\ UNCHANGED <<netVars, world, num_epochs, val_every, epoch, sched_steps, idx, psnr,
                   best_psnr, out, res, tar, store, saves, val_history, visited,
                   log_failed>>

\* scheduler.step(), the print and the test of line 96 (lines 92-100)
SchedulerStep(w) ==
    /\ pc[w] = "sched"
    /\ sched_steps' = [sched_steps EXCEPT ![w] = @ + 1]
    /\ IF ValidationDue(epoch[w])
       THEN /\ pc' = [pc EXCEPT ![w] = "val"]
            /\ psnr' = [psnr EXCEPT ![w] = Zero]
            /\ idx' = [idx EXCEPT ![w] = 0]
            /\ UNCHANGED <<epoch, batch, train_loss, visited>>
       ELSE /\ LoopAdvance(w)
            /\ UNCHANGED <<psnr, idx>>
    /\ UNCHANGED <<netVars, world, num_epochs, val_every, opt_steps, best_psnr, out, res, tar,
                   store, saves, val_history, log_failed>>

\* one validation pair (lines 101-116); after the last one the loop is left
ValPair(w) ==
    /\ pc[w] = "val"
    /\ idx[w] < ValLen
    /\ \E r \in ValShapes, t \in ValShapes, v \in PsnrVals :
          /\ tar' = [tar EXCEPT ![w] = t]
          /\ out' = [out EXCEPT ![w] = r]
          /\ res' = [res EXCEPT ![w] = Restored(r, t)]
          /\ psnr' = [psnr EXCEPT ![w] = FracAdd(@, v)]
    /\ idx' = [idx EXCEPT ![w] = @ + 1]
    /\ pc' = [pc EXCEPT ![w] = IF idx[w] + 1 = ValLen THEN "avg" ELSE "val"]
    /\ UNCHANGED <<netVars, world, num_epochs, val_every, epoch, batch, train_loss,
                   sched_steps, opt_steps, best_psnr, store, saves,
                   val_history, visited, log_failed>>

\* averaging and checkpointing (lines 118-128)
Checkpoint(w) ==
    /\ pc[w] = "avg"
    /\ LET avg == FracDiv(psnr[w], ValLen) IN
          /\ psnr' = [psnr EXCEPT ![w] = avg]
          /\ val_history' = [val_history EXCEPT ![w] = Append(@, avg)]
          /\ IF Improves(avg, best_psnr[w])
             THEN /\ best_psnr' = [best_psnr EXCEPT ![w] = avg]
                  /\ store' = SaveCheckpoint(store,
                                  CheckpointRecord(w, epoch[w]), epoch[w])
                  /\ saves' = [saves EXCEPT ![w][epoch[w]] = @ + 1]
             ELSE UNCHANGED <<best_psnr, store, saves>>
    /\ pc' = [pc EXCEPT ![w] = "log"]
    /\ UNCHANGED <<netVars, world, num_epochs, val_every, epoch, batch, train_loss,
                   sched_steps, opt_steps, idx, out, res, tar, visited,
                   log_failed>>

\* accelerator.log returns; the print; the loop goes on (lines 130-136)
LogMetrics(w) ==
    /\ pc[w] = "log"
    /\ LoopAdvance(w)
    /\ UNCHANGED <<netVars, world, num_epochs, val_every, sched_steps, opt_steps, idx, psnr,
                   best_psnr, out, res, tar, store, saves, val_history,
                   log_failed>>

\* accelerator.log raises: train() has no handler around it, the exception
\* leaves the loop and train()
LogRaises(w) ==
    /\ pc[w] = "log"
    /\ pc' = [pc EXCEPT ![w] = "aborted"]
    /\ log_failed' = [log_failed EXCEPT ![w] = TRUE]
    /\ UNCHANGED <<netVars, world, num_epochs, val_every, epoch, batch, train_loss,
                   sched_steps, opt_steps, idx, psnr, best_psnr, out, res, tar,
                   store, saves, val_history, visited>>

\* accelerator.end_training() (line 138)
EndTraining(w) ==
    /\ pc[w] = "end_training"
    /\ pc' = [pc EXCEPT ![w] = "done"]
    /\ UNCHANGED <<netVars, world, num_epochs, val_every, epoch, batch, train_loss,
                   sched_steps, opt_steps, idx, psnr, best_psnr, out, res, tar,
                   store, saves, val_history, visited, log_failed>>

\* ===================================================== models/agg.py
\* A tensor is its shape <<N, C, H, W>>; an operation that raises yields
\* ShapeError, and an operation applied to ShapeError yields ShapeError.
ShapeError == <<-1, -1, -1, -1>>

IsShape(t) == t # ShapeError /\ t # NoShape

\* the kinds the constructors are called with: the documented ones, Python's
\* None and the string 'False' that the sources pass, and an unknown kind
NormKinds   == {"bn", "in", "none", "None", "False", "gn"}
ActKinds    == {"relu", "leakyrelu", "PReLU", "none", "gelu"}
InterpKinds == {"bilinear", "bicubic", "nearest", "cubic"}

\* the modes F.interpolate accepts for a rank-4 input
InterpModes == {"nearest", "bilinear", "bicubic", "area", "nearest-exact"}

\* the (kernel_size, dilation) pairs of the ConvLayers of Agg
KernelDilations ==
    {<<1, 1>>, <<3, 1>>, <<3, 2>>, <<3, 4>>, <<3, 8>>, <<3, 16>>, <<3, 32>>,
     <<3, 64>>}

ConfigError == [kind |-> "ValueError"]
NoLayer     == [kind |-> "NoLayer"]

\* ---------------------------------------------------------------- ConvLayer
\* slips of the padding formula: the dilation forgotten, the dilation scaling
\* the whole kernel
ReflectionPadding_NoDilation(k, d) == k \div 2

ReflectionPadding_Scaled(k, d) == (k * d) \div 2

\* reflection_padding = (kernel_size + (dilation-1)*(kernel_size-1)) // 2
ReflectionPadding(k, d) == (k + (d - 1) * (k - 1)) \div 2

ConvLayerInit(cin, cout, k, st, d, norm, nonlinear) ==
    [kind |-> "ConvLayer", cin |-> cin, cout |-> cout, k |-> k, stride |-> st,
     d |-> d, pad |-> ReflectionPadding(k, d),
     norm |-> norm, nonlinear |-> nonlinear,
     normalization |-> IF norm = "bn" THEN "BatchNorm2d"
                       ELSE IF norm = "in" THEN "InstanceNorm2d"
                       ELSE "None",
     activation |-> IF nonlinear = "relu" THEN "ReLU"
                    ELSE IF nonlinear = "leakyrelu" THEN "LeakyReLU"
                    ELSE IF nonlinear = "PReLU" THEN "PReLU"
                    ELSE "None"]

\* nn.ReflectionPad2d(p): the padding must be smaller than the padded dimension
ReflectionPad2d(t, p) ==
    IF ~IsShape(t) THEN ShapeError
    ELSE IF p < t[3] /\ p < t[4]
         THEN <<t[1], t[2], t[3] + 2 * p, t[4] + 2 * p>>
         ELSE ShapeError

\* output length of a convolution along one dimension
ConvOut(h, k, st, d, padding) == (h + 2 * padding - d * (k - 1) - 1) \div st + 1

\* nn.Conv2d(cin, cout, k, stride, padding, dilation)
Conv2d(t, cin, cout, k, st, d, padding) ==
    IF ~IsShape(t) THEN ShapeError
    ELSE IF t[2] # cin THEN ShapeError
    ELSE IF t[3] + 2 * padding < d * (k - 1) + 1 THEN ShapeError
    ELSE IF t[4] + 2 * padding < d * (k - 1) + 1 THEN ShapeError
    ELSE <<t[1], cout, ConvOut(t[3], k, st, d, padding),
           ConvOut(t[4], k, st, d, padding)>>

\* ConvLayer.forward: normalization and activation keep the shape
ConvLayerForward(l, t) ==
    Conv2d(ReflectionPad2d(t, l.pad), l.cin, l.cout, l.k, l.stride, l.d, 0)

\* ------------------------------------------------------------ SelfAttention
SelfAttentionInit(channels, k, nonlinear) ==
    IF nonlinear \in {"relu", "leakyrelu", "PReLU"}
    THEN [kind |-> "SelfAttention", channels |-> channels, k |-> k,
          nonlinear |-> nonlinear, hidden |-> channels \div k,
          activation |-> IF nonlinear = "relu" THEN "ReLU"
                         ELSE IF nonlinear = "leakyrelu" THEN "LeakyReLU"
                         ELSE "PReLU"]
    ELSE ConfigError

\* SelfAttention.attention: linear1 takes `channels` features; out.mul(x)
SelfAttentionForward(l, t) ==
    IF ~IsShape(t) THEN ShapeError
    ELSE IF t[2] # l.channels THEN ShapeError
    ELSE t

\* ---------------------------------------------------------- F.interpolate
InterpolateMode(t, size, mode) ==
    IF ~IsShape(t) THEN ShapeError
    ELSE IF mode \notin InterpModes THEN ShapeError
    ELSE Interpolate(t, size)

\* torch.cat(ts, dim=1): every operand has the same N, H and W
RECURSIVE SumChannels(_)
SumChannels(ts) == IF ts = <<>> THEN 0 ELSE ts[1][2] + SumChannels(Tail(ts))

Cat(ts) ==
    IF \E i \in 1..Len(ts) : ~IsShape(ts[i]) THEN ShapeError
    ELSE IF \E i \in 1..Len(ts) :
                \/ ts[i][1] # ts[1][1]
                \/ ts[i][3] # ts[1][3]
                \/ ts[i][4] # ts[1][4]
         THEN ShapeError
    ELSE <<ts[1][1], SumChannels(ts), ts[1][3], ts[1][4]>>

\* ---------------------------------------------------------------------- SPP
\* kernel_size = stride = 2 * 2 ** (level + 1)
PoolKernel(level) == 2 * 2 ^ (level + 1)

\* padding = 2 * 2 ** (level + 1) % 2
PoolPadding(level) == PoolKernel(level) % 2

\* F.avg_pool2d(x, kernel_size, stride, padding), floor mode
AvgPool2d(t, k, st, padding) ==
    IF ~IsShape(t) THEN ShapeError
    ELSE IF (t[3] + 2 * padding - k) \div st + 1 < 1 THEN ShapeError
    ELSE IF (t[4] + 2 * padding - k) \div st + 1 < 1 THEN ShapeError
    ELSE <<t[1], t[2], (t[3] + 2 * padding - k) \div st + 1,
           (t[4] + 2 * padding - k) \div st + 1>>

SPPInit(cin, cout, num_layers, interp) ==
    [kind |-> "SPP", num_layers |-> num_layers, interpolation_type |-> interp,
     conv |-> [l \in 1..num_layers |->
                 ConvLayerInit(cin, cin, 1, 1, 1, "None", "leakyrelu")],
     fusion |-> ConvLayerInit(cin * (num_layers + 1), cout, 3, 1, 1, "False",
                              "leakyrelu")]

SPPLevel(l, t, level) ==
    InterpolateMode(
        ConvLayerForward(l.conv[level + 1],
            AvgPool2d(t, PoolKernel(level), PoolKernel(level),
                      PoolPadding(level))),
        <<t[3], t[4]>>, l.interpolation_type)

SPPForward(l, t) ==
    IF ~IsShape(t) THEN ShapeError
    ELSE ConvLayerForward(l.fusion,
             Cat([i \in 1..(l.num_layers + 1) |->
                    IF i <= l.num_layers THEN SPPLevel(l, t, i - 1) ELSE t]))

\* --------------------------------------------------------------- Aggreation
AggreationInit(cin, cout) ==
    [kind |-> "Aggreation",
     attention |-> SelfAttentionInit(cin, 8, "relu"),
     conv |-> ConvLayerInit(cin, cout, 3, 1, 1, "None", "leakyrelu")]

AggreationForward(l, t) ==
    ConvLayerForward(l.conv, SelfAttentionForward(l.attention, t))

\* ----------------------------------------------------------------- Backbone
\* nn.MaxPool2d(kernel_size=2, stride=2), floor mode
MaxPool2d(t) ==
    IF ~IsShape(t) THEN ShapeError
    ELSE IF t[3] \div 2 < 1 \/ t[4] \div 2 < 1 THEN ShapeError
    ELSE <<t[1], t[2], t[3] \div 2, t[4] \div 2>>

\* the blocks of vgg16.features[:-1]: [pooled, in channels, out channels];
\* every convolution is 3x3 with zero padding 1
BackboneBlocks ==
    <<[pool |-> FALSE, cin |-> 3,   cout |-> 64],
      [pool |-> TRUE,  cin |-> 64,  cout |-> 128],
      [pool |-> TRUE,  cin |-> 128, cout |-> 256],
      [pool |-> TRUE,  cin |-> 256, cout |-> 512],
      [pool |-> TRUE,  cin |-> 512, cout |-> 512]>>

BlockForward(b, t) ==
    Conv2d(IF b.pool THEN MaxPool2d(t) ELSE t, b.cin, b.cout, 3, 1, 1, 1)

\* out = [x]; out.append(block_i(out[-1])) for the five blocks
RECURSIVE Collect(_, _)
Collect(t, n) ==
    IF n = 0 THEN <<t>>
    ELSE LET prev == Collect(t, n - 1) IN
         Append(prev, BlockForward(BackboneBlocks[n], prev[n]))

\* a slip of the test of line 151: ">" for "!="
NeedsResize_Greater(item, t) == item[3] + item[4] > t[3] + t[4]

\* "sum(item.size()[2:]) != sum(x.size()[2:])"
NeedsResize(item, t) == item[3] + item[4] # t[3] + t[4]

\* the operands of the torch.cat of Backbone.forward
BackboneOperands(t) ==
    LET items == Collect(t, Len(BackboneBlocks)) IN
    [i \in 1..Len(items) |->
        IF ~IsShape(items[i]) THEN ShapeError
        ELSE IF NeedsResize(items[i], t)
             THEN InterpolateMode(items[i], <<t[3], t[4]>>, "bicubic")
             ELSE items[i]]

BackboneForward(t) ==
    IF ~IsShape(t) THEN ShapeError ELSE Cat(BackboneOperands(t))

\* ---------------------------------------------------------------------- Agg
AggChannels      == 64
BackboneChannels == 1475

\* the layers Agg.__init__ builds
AggLayers ==
    LET c == AggChannels IN
    [fusion   |-> ConvLayerInit(BackboneChannels, c, 1, 1, 1, "None", "leakyrelu"),
     block0_1 |-> ConvLayerInit(c, c, 1, 1, 1, "None", "leakyrelu"),
     block0_2 |-> ConvLayerInit(c, c, 3, 1, 1, "None", "leakyrelu"),
     aggreation0_rgb |-> AggreationInit(c * 2, c),
     block1_1 |-> ConvLayerInit(c, c, 3, 1, 2, "None", "leakyrelu"),
     block1_2 |-> ConvLayerInit(c, c, 3, 1, 4, "None", "leakyrelu"),
     aggreation1_rgb |-> AggreationInit(c * 3, c),
     block2_1 |-> ConvLayerInit(c, c, 3, 1, 8, "None", "leakyrelu"),
     block2_2 |-> ConvLayerInit(c, c, 3, 1, 16, "None", "leakyrelu"),
     aggreation2_rgb |-> AggreationInit(c * 3, c),
     block3_1 |-> ConvLayerInit(c, c, 3, 1, 32, "None", "leakyrelu"),
     block3_2 |-> ConvLayerInit(c, c, 3, 1, 64, "None", "leakyrelu"),
     aggreation3_rgb |-> AggreationInit(c * 4, c),
     spp_img  |-> SPPInit(c, c, 4, "bicubic")]

\* the locals after a statement group of Agg.forward assigned `new`
Assign(new) ==
    [n \in LocalNames |-> IF n \in DOMAIN new THEN new[n] ELSE loc[n]]

\* an exception leaves forward, otherwise control reaches `to`
After(new, to) ==
    IF \E n \in DOMAIN new : new[n] = ShapeError THEN "error" ELSE to

\* out_backbone = self.backbone(x); out = self.fusion(out_backbone)
AggBackbone ==
    /\ net_pc = "backbone"
    /\ LET ob  == BackboneForward(x)
           new == [out_backbone |-> ob,
                   out |-> ConvLayerForward(AggLayers.fusion, ob)]
       IN  loc' = Assign(new) /\ net_pc' = After(new, "stage0")
    /\ UNCHANGED <<x, layer, y, trainVars>>

AggStage0 ==
    /\ net_pc = "stage0"
    /\ LET o1  == ConvLayerForward(AggLayers.block0_1, loc["out"])
           o2  == ConvLayerForward(AggLayers.block0_2, o1)
           new == [out0_1 |-> o1, out0_2 |-> o2,
                   agg0_rgb |-> AggreationForward(AggLayers.aggreation0_rgb,
                                                  Cat(<<o1, o2>>))]
       IN  loc' = Assign(new) /\ net_pc' = After(new, "stage1")
    /\ UNCHANGED <<x, layer, y, trainVars>>

AggStage1 ==
    /\ net_pc = "stage1"
    /\ LET o1  == ConvLayerForward(AggLayers.block1_1, loc["agg0_rgb"])
           o2  == ConvLayerForward(AggLayers.block1_2, o1)
           new == [out1_1 |-> o1, out1_2 |-> o2,
                   agg1_rgb |-> AggreationForward(AggLayers.aggreation1_rgb,
                                    Cat(<<loc["agg0_rgb"], o1, o2>>))]
       IN  loc' = Assign(new) /\ net_pc' = After(new, "stage2")
    /\ UNCHANGED <<x, layer, y, trainVars>>

AggStage2 ==
    /\ net_pc = "stage2"
    /\ LET o1  == ConvLayerForward(AggLayers.block2_1, loc["agg1_rgb"])
           o2  == ConvLayerForward(AggLayers.block2_2, o1)
           new == [out2_1 |-> o1, out2_2 |-> o2,
                   agg2_rgb |-> AggreationForward(AggLayers.aggreation2_rgb,
                                    Cat(<<loc["agg1_rgb"], o1, o2>>))]
       IN  loc' = Assign(new) /\ net_pc' = After(new, "stage3")
    /\ UNCHANGED <<x, layer, y, trainVars>>

AggStage3 ==
    /\ net_pc = "stage3"
    /\ LET o1  == ConvLayerForward(AggLayers.block3_1, loc["agg2_rgb"])
           o2  == ConvLayerForward(AggLayers.block3_2, o1)
           new == [out3_1 |-> o1, out3_2 |-> o2,
                   agg3_rgb |-> AggreationForward(AggLayers.aggreation3_rgb,
                                    Cat(<<loc["agg1_rgb"], loc["agg2_rgb"],
                                          o1, o2>>))]
       IN  loc' = Assign(new) /\ net_pc' = After(new, "stage4")
    /\ UNCHANGED <<x, layer, y, trainVars>>

\* spp_rgb = self.spp_img(agg3_rgb); out_rgb = self.block4_1(spp_rgb)
AggStage4 ==
    /\ net_pc = "stage4"
    /\ LET sp  == SPPForward(AggLayers.spp_img, loc["agg3_rgb"])
           new == [spp_rgb |-> sp,
                   out_rgb |-> Conv2d(sp, AggChannels, 3, 1, 1, 1, 0)]
       IN  loc' = Assign(new) /\ net_pc' = After(new, "done")
    /\ UNCHANGED <<x, layer, y, trainVars>>

\* ------------------------------------------------ bounds of the forward pass
MaxBatch == 2       \* largest batch size N explored
MaxSize  == 70      \* largest height and width explored

Sizes == 1..MaxSize

\* Agg()(x) for an RGB batch x
InitNet ==
    /\ TrainIdle
    /\ x \in {<<n, 3, h, w>> : n \in 1..MaxBatch, h \in Sizes, w \in Sizes}
    /\ net_pc = "backbone"
    /\ loc = NoLocals
    /\ layer = NoLayer
    /\ y = NoShape

NextNet ==
    \/ AggBackbone
    \/ AggStage0
    \/ AggStage1
    \/ AggStage2
    \/ AggStage3
    \/ AggStage4

SpecNet == InitNet /\ [][NextNet]_vars

\* --------------------------------------------- one primitive layer by itself
UnitChannels == AggChannels
UnitWidths   == {1, 64, 65}
Strides      == {1, 2}

ConstructConvLayer ==
    /\ net_pc = "construct"
    /\ \E kd \in KernelDilations, st \in Strides, norm \in NormKinds,
          nonlinear \in ActKinds :
          layer' = ConvLayerInit(UnitChannels, UnitChannels, kd[1], st, kd[2],
                                 norm, nonlinear)
    /\ net_pc' = "constructed"
    /\ UNCHANGED <<x, loc, y, trainVars>>

ConstructSelfAttention ==
    /\ net_pc = "construct"
    /\ \E nonlinear \in ActKinds :
          layer' = SelfAttentionInit(UnitChannels, 8, nonlinear)
    /\ net_pc' = IF layer' = ConfigError THEN "error" ELSE "constructed"
    /\ UNCHANGED <<x, loc, y, trainVars>>

ConstructSPP ==
    /\ net_pc = "construct"
    /\ \E interp \in InterpKinds :
          layer' = SPPInit(UnitChannels, UnitChannels, 4, interp)
    /\ net_pc' = "constructed"
    /\ UNCHANGED <<x, loc, y, trainVars>>

LayerForward(l, t) ==
    IF l.kind = "ConvLayer" THEN ConvLayerForward(l, t)
    ELSE IF l.kind = "SelfAttention" THEN SelfAttentionForward(l, t)
    ELSE SPPForward(l, t)

\* y = layer(x)
ApplyLayer ==
    /\ net_pc = "constructed"
    /\ y' = LayerForward(layer, x)
    /\ net_pc' = IF y' = ShapeError THEN "error" ELSE "applied"
    /\ UNCHANGED <<x, loc, layer, trainVars>>

InitLayer ==
    /\ TrainIdle
    /\ x \in {<<1, UnitChannels, h, w>> : h \in Sizes, w \in UnitWidths}
    /\ net_pc = "construct"
    /\ loc = NoLocals
    /\ layer = NoLayer
    /\ y = NoShape

NextLayer ==
    \/ ConstructConvLayer
    \/ ConstructSelfAttention
    \/ ConstructSPP
    \/ ApplyLayer

SpecLayer == InitLayer /\ [][NextLayer]_vars

\* =================================================================== train()
Next ==
    \/ TrainBatch
    \/ \E w \in Procs : SchedulerStep(w)
    \/ \E w \in Procs : ValPair(w)
    \/ \E w \in Procs : Checkpoint(w)
    \/ \E w \in Procs : LogMetrics(w)
    \/ \E w \in Procs : LogRaises(w)
    \/ \E w \in Procs : EndTraining(w)

Spec == Init /\ [][Next]_vars

SpecDDP == InitDDP /\ [][Next]_vars
\* ==================================================================== claims
\* the epoch of the i-th validation phase of a run
PhaseEpoch(i) == i * val_every

\* worker w called save_checkpoint in its i-th validation phase
Persisted(w, i) == saves[w][PhaseEpoch(i)] > 0

\* the i-th averaged PSNR of w exceeds that of every earlier phase of w
ExceedsEarlier(w, i) ==
    \A j \in 1..(i - 1) : FracGt(val_history[w][i], val_history[w][j])

\* C1 (as stated): a validation phase persists a Checkpoint Record if and only
\* if its averaged PSNR strictly exceeds the averaged PSNR of every earlier
\* validation phase; so the first phase always persists.
C1_PersistIffExceedsEarlier ==
    \A w \in Procs : \A i \in 1..Len(val_history[w]) :
        Persisted(w, i) <=> ExceedsEarlier(w, i)

\* C1 (amended): a validation phase persists a Checkpoint Record if and only
\* if its averaged PSNR strictly exceeds 0, the initial watermark, and the
\* averaged PSNR of every earlier validation phase.
C1_PersistIffExceedsEarlierAndZero ==
    \A w \in Procs : \A i \in 1..Len(val_history[w]) :
        Persisted(w, i) <=>
            (FracGt(val_history[w][i], Zero) /\ ExceedsEarlier(w, i))

\* a first phase with PSNR <= 0 persisted nothing, a later better one did
C1_Witness ==
    \E w \in Procs :
        /\ Len(val_history[w]) = 2
        /\ ~FracGt(val_history[w][1], Zero)
        /\ ~Persisted(w, 1)
        /\ FracGt(val_history[w][2], Zero)
        /\ Persisted(w, 2)

\* C2: the watermark best_psnr never decreases, and every step that changes
\* it assigns a strictly greater value.
C2_WatermarkMonotone ==
    [][\A w \in Procs :
          /\ FracGe(best_psnr'[w], best_psnr[w])
          /\ best_psnr'[w] # best_psnr[w] =>
                FracGt(best_psnr'[w], best_psnr[w])]_vars

\* a phase with a PSNR below a positive watermark left the watermark alone
C2_Witness ==
    \E w \in Procs :
        /\ Len(val_history[w]) = 2
        /\ pc[w] = "log"
        /\ FracGt(val_history[w][1], Zero)
        /\ best_psnr[w] = val_history[w][1]
        /\ FracGt(best_psnr[w], val_history[w][2])

\* C3: once a record is persisted under an epoch number, no later
\* save_checkpoint call of any worker writes under that epoch number.
C3_AppendOnlyStore ==
    [][\A e \in Epochs :
          store[e] # NoRecord =>
              \A w \in Procs : saves'[w][e] = saves[w][e]]_vars

\* C4: a raising accelerator.log never aborts training.
C4_TrackerFailureDoesNotAbort ==
    \A w \in Procs : log_failed[w] => pc[w] # "aborted"

\* C7: train() is left only after the epochs 1..N were visited in order, once
\* each, with N scheduler steps.
C7_AllEpochsVisited ==
    \A w \in Procs :
        pc[w] \in {"done", "aborted"} =>
            /\ visited[w] = [i \in 1..num_epochs |-> i]
            /\ sched_steps[w] = num_epochs

\* C10: the tensor scored by PSNR and SSIM has the target's height and width;
\* it is the network output itself when the shapes agree.
C10_ScoredAtTargetSize ==
    \A w \in Procs :
        res[w] # NoShape =>
            /\ res[w][3] = tar[w][3]
            /\ res[w][4] = tar[w][4]
            /\ out[w] = tar[w] => res[w] = out[w]

\* restored [1,3,100,150] was scored as [1,3,120,180]
C10_Witness ==
    \E w \in Procs :
        /\ out[w] = <<1, 3, 100, 150>>
        /\ tar[w] = <<1, 3, 120, 180>>
        /\ res[w] = <<1, 3, 120, 180>>

Even(n) == n % 2 = 0

\* Agg.forward returned a tensor of the input's shape and every local has the
\* input's height and width
AggPreserves ==
    /\ net_pc # "error"
    /\ \A n \in LocalNames :
          loc[n] # NoShape =>
              /\ IsShape(loc[n])
              /\ loc[n][1] = x[1] /\ loc[n][3] = x[3] /\ loc[n][4] = x[4]
    /\ net_pc = "done" => loc["out_rgb"] = <<x[1], 3, x[3], x[4]>>

\* C5 (as stated): for H, W even and >= 64, Agg.forward raises nothing and
\* returns [N,3,H,W].
C5_AggShapeFrom64 ==
    (net_pc # "idle" /\ net_pc # "construct" /\ layer = NoLayer
        /\ Even(x[3]) /\ Even(x[4]) /\ x[3] >= 64 /\ x[4] >= 64)
    => AggPreserves

\* C5 (amended): for H, W even and >= 66, Agg.forward raises nothing and
\* returns [N,3,H,W].
C5_AggShapeFrom66 ==
    (net_pc # "idle" /\ net_pc # "construct" /\ layer = NoLayer
        /\ Even(x[3]) /\ Even(x[4]) /\ x[3] >= 66 /\ x[4] >= 66)
    => AggPreserves

\* the forward pass of a 66 x 68 input is done
C5_Witness ==
    /\ net_pc = "done"
    /\ x[3] = 66 /\ x[4] = 68
    /\ loc["out_rgb"] = <<x[1], 3, 66, 68>>

\* C8: for H, W >= 16 the backbone returns [N,1475,H,W]; the six operands of
\* its concatenation have 3, 64, 128, 256, 512, 512 channels and all have the
\* input's height and width.
C8_BackboneShape ==
    (net_pc \in {"stage0", "stage1", "stage2", "stage3", "stage4", "done",
                 "error"}
        /\ x[3] >= 16 /\ x[4] >= 16)
    => /\ loc["out_backbone"] = <<x[1], 1475, x[3], x[4]>>
       /\ LET ops == BackboneOperands(x) IN
          /\ [i \in 1..Len(ops) |-> ops[i][2]] = <<3, 64, 128, 256, 512, 512>>
          /\ \A i \in 1..Len(ops) : ops[i][3] = x[3] /\ ops[i][4] = x[4]

\* the backbone ran on a non-square input at the lower boundary
C8_Witness ==
    /\ net_pc = "stage0"
    /\ x[3] = 16 /\ x[4] = 17
    /\ loc["out_backbone"] = <<x[1], 1475, 16, 17>>

\* C9: a stride-1 ConvLayer with a (kernel_size, dilation) pair of the
\* network returns the input's height and width whenever its padding applies.
C9_ConvLayerPreserves ==
    (net_pc = "applied" /\ layer.kind = "ConvLayer" /\ layer.stride = 1
        /\ <<layer.k, layer.d>> \in KernelDilations)
    => /\ y[3] = x[3] /\ y[4] = x[4]
       /\ x[3] + 2 * layer.pad - layer.d * (layer.k - 1) = x[3]

\* the dilation-64 unit was applied to the smallest input it accepts
C9_Witness ==
    /\ net_pc = "applied"
    /\ layer.kind = "ConvLayer" /\ layer.stride = 1
    /\ layer.k = 3 /\ layer.d = 64
    /\ x[3] = 65 /\ x[4] = 65
    /\ y = x

\* C6: no usable layer exists with an unrecognized kind: such a construction
\* fails in the constructor.  Python's None counts as kind "none".
C6_InvalidKindRejected ==
    /\ layer.kind = "ConvLayer" =>
          /\ layer.norm \in {"bn", "in", "none", "None"}
          /\ layer.nonlinear \in {"relu", "leakyrelu", "PReLU", "none"}
    /\ layer.kind = "SelfAttention" =>
          layer.nonlinear \in {"relu", "leakyrelu", "PReLU"}
    /\ layer.kind = "SPP" =>
          layer.interpolation_type \in {"bilinear", "bicubic", "nearest"}
====
